---- MODULE Spec2Model ----
(***************************************************************************)
(* The movies service (src/moviesService.ts) over the document repository. *)
(* A stored document is a function from field names to values; the store   *)
(* is a function from document keys to stored documents.  Every public     *)
(* operation is split at its awaits: one step per request that takes       *)
(* effect at the store, so that calls of different callers interleave the  *)
(* way the asynchronous code allows.                                       *)
(***************************************************************************)
EXTENDS Integers, Sequences, FiniteSets, TLC

\* ------------------------------------------------------------------ bounds
NumCallers == 2
MaxDocs == 2
MaxCalls == 2
MaxTime == 1

Callers == 1..NumCallers
Ids == 0..(MaxDocs - 1)

\* ------------------------------------------------------- values of fields
\* what callers pass to createMovie
Titles == {"Dune", "X"}
Descriptions == {"Desert planet"}
Genres == {"Sci-Fi"}
Ratings == {8}
\* what callers pass to updateMovie
NewTitles == {"X"}
NewDescriptions == {"Arrakis"}
NewGenres == {"Science Fiction"}

COLLECTION == "movies"

\* The fields of the Movie shape (models/movieModel).
MovieShape == {"id", "title", "description", "genre", "rating", "createdAt"}

\* movieData of createMovie: {title, description, genre, rating?}
CreateInputs ==
    LET full == [title : Titles, description : Descriptions,
                 genre : Genres, rating : Ratings]
    IN  full \cup {[f \in {"title", "description", "genre"} |-> m[f]] : m \in full}

\* movieData of updateMovie: title, description, genre, each possibly undefined
UpdateInputs ==
    LET full == [title : NewTitles, description : NewDescriptions,
                 genre : NewGenres]
    IN  UNION {{[f \in S |-> m[f]] : m \in full} :
                   S \in SUBSET {"title", "description", "genre"}}

\* A document written to the collection by another client of the store: the
\* service enforces no schema, so it carries a field outside the Movie shape.
LegacyDocument ==
    [title |-> "Dune", description |-> "Desert planet", genre |-> "Sci-Fi",
     createdAt |-> 0, director |-> "Villeneuve"]

VARIABLES
    store,      \* the movies collection: document key -> stored document
    nextId,     \* the keys the store has assigned so far are 0..nextId-1
    now,        \* the clock read by new Date()
    calls,      \* number of calls issued so far
    op,         \* per caller: the operation it called
    pc,         \* per caller: where its current call is suspended
    id,         \* per caller: the id argument of the current call
    movieData,  \* per caller: the movieData argument of the current call
    movie,      \* per caller: the local of the call (movie / newMovie)
    result      \* per caller: what the finished call returned or threw

vars == <<store, nextId, now, calls, op, pc, id, movieData, movie, result>>

\* ------------------------------------------------------------ local values
None == [none |-> TRUE]
Void == [void |-> TRUE]
Null == [exists |-> FALSE]

\* new Error(`Movie with ID ${id} not found`)
NotFound(k) ==
    [error |-> "NotFound", message |-> <<"Movie with ID ", k, " not found">>]

\* A failure of the store, propagated unchanged.
StoreFailure == [error |-> "StoreFailure"]

IsError(r) == "error" \in DOMAIN r
IsNotFound(r, k) == IsError(r) /\ r.error = "NotFound" /\ r.message[2] = k

\* ---------------------------------------------------- document repository
\* getDocumentById(collection, id): the document snapshot or null
GetDocumentById(coll, k) ==
    IF coll = COLLECTION /\ k \in DOMAIN store
    THEN [exists |-> TRUE, id |-> k, data |-> store[k]]
    ELSE Null

\* getDocuments(collection): the snapshots of all documents, in an order the
\* store chooses
GetDocuments(coll) ==
    {s \in [1..Cardinality(DOMAIN store) -> DOMAIN store] :
        \A i, j \in DOMAIN s : i # j => s[i] # s[j]}

\* createDocument(collection, record): stores it under a fresh key
CreateDocument(coll, record) ==
    IF coll = COLLECTION THEN (nextId :> record) @@ store ELSE store

\* updateDocument(collection, id, record): the stored document becomes record
UpdateDocument(coll, k, record) ==
    IF coll = COLLECTION THEN (k :> record) @@ store ELSE store

\* deleteDocument(collection, id)
DeleteDocument(coll, k) ==
    IF coll = COLLECTION THEN [j \in DOMAIN store \ {k} |-> store[j]] ELSE store

\* ------------------------------------------------------------ the service
\* structuredClone: a deep copy, field by field
StructuredClone(m) == [f \in DOMAIN m |-> m[f]]

\* { ...data }: the key is left out
BuildMovieNoKey(key, data) == data

\* the key and only those fields of data that the Movie shape names
BuildMovieShapeOnly(key, data) ==
    [f \in {"id"} \cup (DOMAIN data \cap MovieShape) |->
        IF f \in DOMAIN data THEN data[f] ELSE key]

\* { id: doc.id, ...data }: the fields of data are spread over the key
BuildMovie(key, data) ==
    [f \in {"id"} \cup DOMAIN data |-> IF f \in DOMAIN data THEN data[f] ELSE key]

\* getMovieById without its check for a missing document
GetMovieByIdUnchecked(doc, k) ==
    IF ~doc.exists
    THEN StructuredClone(BuildMovie(k, <<>>))
    ELSE StructuredClone(BuildMovie(doc.id, doc.data))

\* getMovieById after its await: throws when there is no document
GetMovieById(doc, k) ==
    IF ~doc.exists
    THEN NotFound(k)
    ELSE StructuredClone(BuildMovie(doc.id, doc.data))

\* { ...movieData } without the stamp
NewMovieUnstamped(md, dateNow) == md

\* { ...movieData, createdAt: dateNow }
NewMovie(md, dateNow) ==
    [f \in DOMAIN md \cup {"createdAt"} |->
        IF f = "createdAt" THEN dateNow ELSE md[f]]

\* the assignments of updateMovie without their presence checks
MergeUnchecked(m, md) ==
    [f \in DOMAIN m |->
        IF f \in {"title", "description", "genre"}
        THEN (IF f \in DOMAIN md THEN md[f] ELSE "undefined")
        ELSE m[f]]

\* the merge rebuilt from the required fields only, the optional rating forgotten
MergeRequiredOnly(m, md) ==
    [f \in DOMAIN m \ {"rating"} |->
        IF f \in {"title", "description", "genre"} /\ f \in DOMAIN md
        THEN md[f] ELSE m[f]]

\* the three presence-checked assignments of updateMovie
Merge(m, md) ==
    [f \in DOMAIN m |->
        IF f \in {"title", "description", "genre"} /\ f \in DOMAIN md
        THEN md[f] ELSE m[f]]

Finish(p, r) ==
    /\ pc' = [pc EXCEPT ![p] = "done"]
    /\ result' = [result EXCEPT ![p] = r]
    /\ movie' = [movie EXCEPT ![p] = None]
    /\ movieData' = [movieData EXCEPT ![p] = None]

Start(p, o) ==
    /\ pc[p] = "idle"
    /\ calls < MaxCalls
    /\ calls' = calls + 1
    /\ op' = [op EXCEPT ![p] = o]

\* getAllMovies
GetAllMovies(p) ==
    /\ Start(p, "getAllMovies")
    /\ \E order \in GetDocuments(COLLECTION) :
          Finish(p, [movies |->
              [i \in DOMAIN order |-> BuildMovie(order[i], store[order[i]])]])
    /\ UNCHANGED <<store, nextId, now, id>>

\* getMovieById(id)
GetMovie(p) ==
    /\ Start(p, "getMovieById")
    /\ \E k \in Ids :
          /\ id' = [id EXCEPT ![p] = k]
          /\ Finish(p, GetMovieById(GetDocumentById(COLLECTION, k), k))
    /\ UNCHANGED <<store, nextId, now>>

\* createMovie(movieData) up to its await: stamps the input
CreateMovieCall(p) ==
    /\ Start(p, "createMovie")
    /\ nextId + Cardinality({q \in Callers : pc[q] = "create"}) < MaxDocs
    /\ \E md \in CreateInputs :
          /\ movieData' = [movieData EXCEPT ![p] = md]
          /\ movie' = [movie EXCEPT ![p] = NewMovie(md, now)]
    /\ pc' = [pc EXCEPT ![p] = "create"]
    /\ UNCHANGED <<store, nextId, now, id, result>>

\* createMovie: createDocument takes effect, the call returns
CreateMovieStore(p) ==
    /\ pc[p] = "create"
    /\ LET movieId == nextId IN
       /\ store' = CreateDocument(COLLECTION, movie[p])
       /\ nextId' = nextId + 1
       /\ Finish(p, StructuredClone(BuildMovie(movieId, movie[p])))
    /\ UNCHANGED <<now, calls, op, id>>

\* updateMovie(id, movieData) up to the return of getMovieById; its throw
\* ends the call, so the test of !movie after it never succeeds
UpdateMovieRead(p) ==
    /\ Start(p, "updateMovie")
    /\ \E k \in Ids, md \in UpdateInputs :
          LET m == GetMovieById(GetDocumentById(COLLECTION, k), k) IN
          /\ id' = [id EXCEPT ![p] = k]
          /\ IF IsError(m)
             THEN Finish(p, m)
             ELSE /\ movie' = [movie EXCEPT ![p] = m]
                  /\ movieData' = [movieData EXCEPT ![p] = md]
                  /\ pc' = [pc EXCEPT ![p] = "update"]
                  /\ UNCHANGED result
    /\ UNCHANGED <<store, nextId, now>>

\* updateMovie: the merge, then updateDocument takes effect, the call returns.
\* When the document is gone by now the store either writes it anew or fails.
UpdateMovieWrite(p) ==
    /\ pc[p] = "update"
    /\ LET updateMovie == Merge(movie[p], movieData[p]) IN
       \/ /\ store' = UpdateDocument(COLLECTION, id[p], updateMovie)
          /\ Finish(p, StructuredClone(updateMovie))
       \/ /\ id[p] \notin DOMAIN store
          /\ Finish(p, StoreFailure)
          /\ UNCHANGED store
    /\ UNCHANGED <<nextId, now, calls, op, id>>

\* deleteMovie(id) up to the return of getMovieById; its throw ends the call
DeleteMovieRead(p) ==
    /\ Start(p, "deleteMovie")
    /\ \E k \in Ids :
          LET m == GetMovieById(GetDocumentById(COLLECTION, k), k) IN
          /\ id' = [id EXCEPT ![p] = k]
          /\ IF IsError(m)
             THEN Finish(p, m)
             ELSE /\ movie' = [movie EXCEPT ![p] = m]
                  /\ pc' = [pc EXCEPT ![p] = "delete"]
                  /\ UNCHANGED <<movieData, result>>
    /\ UNCHANGED <<store, nextId, now>>

\* deleteMovie issuing its deleteDocument against another collection
DeleteMovieWriteElsewhere(p) ==
    /\ pc[p] = "delete"
    /\ store' = DeleteDocument("movie", id[p])
    /\ Finish(p, Void)
    /\ UNCHANGED <<nextId, now, calls, op, id>>

\* deleteMovie: deleteDocument takes effect, the call returns
DeleteMovieWrite(p) ==
    /\ pc[p] = "delete"
    /\ store' = DeleteDocument(COLLECTION, id[p])
    /\ Finish(p, Void)
    /\ UNCHANGED <<nextId, now, calls, op, id>>

\* the caller consumes the outcome and is free to call again
Return(p) ==
    /\ pc[p] = "done"
    /\ pc' = [pc EXCEPT ![p] = "idle"]
    /\ op' = [op EXCEPT ![p] = "none"]
    /\ id' = [id EXCEPT ![p] = 0]
    /\ result' = [result EXCEPT ![p] = None]
    /\ UNCHANGED <<store, nextId, now, calls, movieData, movie>>

\* time passes
Tick ==
    /\ now < MaxTime
    /\ now' = now + 1
    /\ UNCHANGED <<store, nextId, calls, op, pc, id, movieData, movie, result>>

Init ==
    /\ \/ store = <<>> /\ nextId = 0
       \/ store = (0 :> LegacyDocument) /\ nextId = 1
    /\ now = 0
    /\ calls = 0
    /\ op = [p \in Callers |-> "none"]
    /\ pc = [p \in Callers |-> "idle"]
    /\ id = [p \in Callers |-> 0]
    /\ movieData = [p \in Callers |-> None]
    /\ movie = [p \in Callers |-> None]
    /\ result = [p \in Callers |-> None]

Next ==
    \/ \E p \in Callers : GetAllMovies(p)
    \/ \E p \in Callers : GetMovie(p)
    \/ \E p \in Callers : CreateMovieCall(p)
    \/ \E p \in Callers : CreateMovieStore(p)
    \/ \E p \in Callers : UpdateMovieRead(p)
    \/ \E p \in Callers : UpdateMovieWrite(p)
    \/ \E p \in Callers : DeleteMovieRead(p)
    \/ \E p \in Callers : DeleteMovieWrite(p)
    \/ \E p \in Callers : Return(p)
    \/ Tick

Spec == Init /\ [][Next]_vars

\* ================================================================ claims
\* the step in which caller p's updateDocument took effect
UpdateWrote(p) ==
    /\ pc[p] = "update"
    /\ pc'[p] = "done"
    /\ ~IsError(result'[p])

TitleOnly(p) == DOMAIN movieData[p] = {"title"}

C2_MissingIdNotFoundNoWrite ==
    [][\A p \in Callers :
          /\ (/\ pc[p] = "idle"
              /\ op'[p] \in {"updateMovie", "deleteMovie"}
              /\ id'[p] \notin DOMAIN store)
                => /\ pc'[p] = "done"
                   /\ IsNotFound(result'[p], id'[p])
                   /\ store' = store
          /\ (pc[p] \in {"update", "delete"}) => id[p] < nextId]_vars

\* an updateMovie and a deleteMovie on ids without a document ended with
\* NotFound, and the store still is the initial one
C2_Witness ==
    \E p, q \in Callers :
       /\ pc[p] = "done" /\ op[p] = "updateMovie"
       /\ pc[q] = "done" /\ op[q] = "deleteMovie"
       /\ IsNotFound(result[p], id[p])
       /\ IsNotFound(result[q], id[q])
       /\ id[p] \notin DOMAIN store
       /\ id[q] \notin DOMAIN store
       /\ store = (0 :> LegacyDocument)

\* C5: getMovieById on an id with no document fails with NotFound whose
\* message contains the id; on an id with a document it does not fail with
\* NotFound; the store is unchanged either way.
C5_GetByIdNotFoundIffMissing ==
    [][\A p \in Callers :
          (pc[p] = "idle" /\ op'[p] = "getMovieById") =>
             /\ pc'[p] = "done"
             /\ store' = store
             /\ (id'[p] \notin DOMAIN store) => IsNotFound(result'[p], id'[p])
             /\ (id'[p] \in DOMAIN store) => ~IsError(result'[p])]_vars

\* one caller got NotFound for a missing id, the other a Movie for a stored one
C5_Witness ==
    \E p, q \in Callers :
       /\ pc[p] = "done" /\ op[p] = "getMovieById"
       /\ pc[q] = "done" /\ op[q] = "getMovieById"
       /\ IsNotFound(result[p], id[p])
       /\ id[p] \notin DOMAIN store
       /\ "title" \in DOMAIN result[q]
       /\ id[q] \in DOMAIN store
       /\ store = (0 :> LegacyDocument)

\* the step in which caller p's deleteDocument took effect
DeleteWrote(p) ==
    /\ pc[p] = "delete"
    /\ pc'[p] = "done"

\* C3 (as stated): once deleteMovie has removed a document, it is never in
\* the store again (every key below nextId was assigned, so one that has no
\* document was deleted).
C3_DeletedStaysDeleted ==
    [][\A k \in Ids :
          (k < nextId /\ k \notin DOMAIN store) => k \notin DOMAIN store']_vars

\* C3 (amended): the write of deleteMovie removes the document, and a removed
\* document comes back only by the write of an updateMovie on that id that
\* had read the document before it was removed.
C3_DeletedUnlessStaleUpdate ==
    [][\A k \in Ids :
          /\ (\E p \in Callers : DeleteWrote(p) /\ id[p] = k)
                => k \notin DOMAIN store'
          /\ (k < nextId /\ k \notin DOMAIN store /\ k \in DOMAIN store')
                => \E p \in Callers :
                      /\ UpdateWrote(p)
                      /\ id[p] = k
                      /\ movie[p].id = k
                      /\ store'[k] = result'[p]]_vars

\* deleteMovie returned for the legacy document and a getMovieById on its id
\* failed with NotFound
C3_Witness ==
    \E p, q \in Callers :
       /\ pc[p] = "done" /\ op[p] = "deleteMovie" /\ result[p] = Void
       /\ pc[q] = "done" /\ op[q] = "getMovieById"
       /\ id[q] = id[p]
       /\ id[p] < nextId
       /\ IsNotFound(result[q], id[p])
       /\ id[p] \notin DOMAIN store

\* the step in which caller p's createDocument took effect
CreateStored(p) ==
    /\ pc[p] = "create"
    /\ pc'[p] = "done"

\* C4: createMovie stamps its input with the clock of the call; it returns a
\* Movie whose id is the key the store assigned, a key no stored document
\* had; that Movie has the input's title, description, genre and rating and
\* the stamp as createdAt, and it is what getMovieById returns for that id.
C4_CreateRoundTrip ==
    [][\A p \in Callers :
          /\ (pc[p] = "idle" /\ op'[p] = "createMovie") =>
                /\ "createdAt" \in DOMAIN movie'[p]
                /\ movie'[p].createdAt = now
          /\ CreateStored(p) =>
                LET r == result'[p] IN
                /\ DOMAIN r = DOMAIN movieData[p] \cup {"id", "createdAt"}
                /\ r.id \notin DOMAIN store
                /\ DOMAIN store' = DOMAIN store \cup {r.id}
                /\ \A f \in DOMAIN movieData[p] : r[f] = movieData[p][f]
                /\ r.createdAt = movie[p].createdAt
                /\ \A f \in DOMAIN r \ {"id"} :
                      f \in DOMAIN store'[r.id] /\ store'[r.id][f] = r[f]
                /\ \E k \in Ids :
                      /\ k = r.id
                      /\ (GetMovieById(GetDocumentById(COLLECTION, k), k))' = r]_vars

\* a movie with a rating was created after the clock had advanced, and a
\* getMovieById on the returned id returned the same Movie
C4_Witness ==
    \E p, q \in Callers :
       /\ pc[p] = "done" /\ op[p] = "createMovie"
       /\ pc[q] = "done" /\ op[q] = "getMovieById"
       /\ ~IsError(result[q])
       /\ id[q] = result[p].id
       /\ result[q] = result[p]
       /\ "rating" \in DOMAIN result[p]
       /\ result[p].createdAt = 1

\* C6: getAllMovies returns exactly one Movie per stored document, and every
\* Movie returned by getAllMovies or getMovieById has the key of its document
\* as id and the document's fields; an id field written back into a stored
\* document equals the document's key.
C6_IdIsDocumentKey ==
    [][/\ \A k \in DOMAIN store' :
             "id" \in DOMAIN store'[k] => store'[k].id = k
       /\ \A p \in Callers :
          /\ (pc[p] = "idle" /\ op'[p] = "getAllMovies") =>
                LET ms == result'[p].movies IN
                /\ Len(ms) = Cardinality(DOMAIN store)
                /\ \A i \in DOMAIN ms :
                      /\ "id" \in DOMAIN ms[i]
                      /\ ms[i].id \in DOMAIN store
                      /\ \A f \in DOMAIN store[ms[i].id] :
                            ms[i][f] = store[ms[i].id][f]
                /\ \A i, j \in DOMAIN ms : i # j => ms[i].id # ms[j].id
          /\ (pc[p] = "idle" /\ op'[p] = "getMovieById" /\ ~IsError(result'[p])) =>
                /\ "id" \in DOMAIN result'[p]
                /\ result'[p].id = id'[p]]_vars

\* getAllMovies returned the Movie of a document that updateMovie had
\* written back with its own id field
C6_Witness ==
    \E p \in Callers :
       /\ pc[p] = "done" /\ op[p] = "getAllMovies"
       /\ \E i \in DOMAIN result[p].movies :
             LET m == result[p].movies[i] IN
             /\ m.id \in DOMAIN store
             /\ "id" \in DOMAIN store[m.id]
             /\ m = store[m.id]

\* C7: the createdAt and the rating of a stored document never change while
\* the document is stored.
C7_CreatedAtAndRatingFixed ==
    [][\A k \in DOMAIN store \cap DOMAIN store' :
          /\ store'[k].createdAt = store[k].createdAt
          /\ ("rating" \in DOMAIN store'[k]) <=> ("rating" \in DOMAIN store[k])
          /\ ("rating" \in DOMAIN store[k]) =>
                store'[k].rating = store[k].rating]_vars

\* an updateMovie changed the genre of a created movie that has a rating
C7_Witness ==
    \E p \in Callers :
       /\ pc[p] = "done" /\ op[p] = "updateMovie"
       /\ ~IsError(result[p])
       /\ result[p].genre = "Science Fiction"
       /\ "rating" \in DOMAIN result[p]
       /\ id[p] \in DOMAIN store
       /\ store[id[p]] = result[p]

\* C8 (as stated): between the read and the write of updateMovie and
\* deleteMovie no other request takes effect: at the write the document
\* exists and holds the values that were read.
C8_ReadAndWriteAtomic ==
    \A p \in Callers :
       pc[p] \in {"update", "delete"} =>
          /\ id[p] \in DOMAIN store
          /\ BuildMovie(id[p], store[id[p]]) = movie[p]

\* C8 (amended): each store request is atomic, but updateMovie and
\* deleteMovie are two requests and others may take effect between them; a
\* call that reaches its write read a Movie of a document that existed, and
\* the write targets the id of that Movie.
C8_WriteTargetsWhatWasRead ==
    \A p \in Callers :
       pc[p] \in {"update", "delete"} =>
          /\ ~IsError(movie[p])
          /\ "title" \in DOMAIN movie[p]
          /\ movie[p].id = id[p]
          /\ id[p] < nextId

\* an updateMovie is between its read and its write and the document it read
\* has been deleted meanwhile
C8_Witness ==
    \E p \in Callers :
       /\ pc[p] = "update"
       /\ id[p] < nextId
       /\ id[p] \notin DOMAIN store

\* C9: the write of an updateMovie leaves as stored document the full merged
\* record of that call: the fields the call sets, and for every other field
\* the value the call read, whatever the store holds at that moment.
C9_LastWriteWins ==
    [][\A p \in Callers :
          UpdateWrote(p) =>
             LET k == id[p] IN
             /\ store'[k] = result'[p]
             /\ DOMAIN store'[k] = DOMAIN movie[p]
             /\ \A f \in DOMAIN movieData[p] : store'[k][f] = movieData[p][f]
             /\ \A f \in DOMAIN movie[p] \ DOMAIN movieData[p] :
                   store'[k][f] = movie[p][f]]_vars

\* a lost update: of two finished updateMovie calls on the legacy document
\* one set the title and the other the genre, and the stored title is the
\* old one again
C9_Witness ==
    \E p, q \in Callers :
       /\ p # q
       /\ pc[p] = "done" /\ op[p] = "updateMovie" /\ ~IsError(result[p])
       /\ pc[q] = "done" /\ op[q] = "updateMovie" /\ ~IsError(result[q])
       /\ id[p] = id[q]
       /\ result[p].title = "X" /\ result[p].genre = "Sci-Fi"
       /\ result[q].title = "Dune" /\ result[q].genre = "Science Fiction"
       /\ id[q] \in DOMAIN store
       /\ store[id[q]] = result[q]

\* C10 (as stated): the document stored by updateMovie holds no field
\* outside the Movie shape.
C10_WriteDropsForeignFields ==
    [][\A p \in Callers :
          UpdateWrote(p) => DOMAIN store'[id[p]] \subseteq MovieShape]_vars

\* C10 (amended): updateMovie overwrites the stored document with the merged
\* object, which holds every field of the document read: a field of the
\* stored document outside the Movie shape is kept by the write.
C10_WriteKeepsForeignFields ==
    [][\A p \in Callers :
          (UpdateWrote(p) /\ id[p] \in DOMAIN store) =>
             LET k == id[p] IN
             /\ DOMAIN store[k] \subseteq DOMAIN store'[k]
             /\ \A f \in DOMAIN store[k] \ MovieShape :
                   store'[k][f] = store[k][f]]_vars

\* an updateMovie wrote back a document that holds a field outside the
\* Movie shape
C10_Witness ==
    \E p \in Callers :
       /\ pc[p] = "done" /\ op[p] = "updateMovie"
       /\ ~IsError(result[p])
       /\ id[p] \in DOMAIN store
       /\ "id" \in DOMAIN store[id[p]]
       /\ DOMAIN store[id[p]] \ MovieShape # {}

====
